---- MODULE Spec2Model ----
(***************************************************************************)
(* A model of logico: the tokenizer (src/src/tokens.rs), the parser        *)
(* (src/src/parser.rs), the expression tree and the evaluation context     *)
(* (src/src/expression.rs) and the truth table driver (src/src/main.rs).   *)
(*                                                                         *)
(* A Rust string is a sequence of characters, each a one-character string; *)
(* EAcute stands for a two-byte alphabetic character.  A Result is a       *)
(* record tagged "Ok" or "Err"; an abort (panic) is tagged "Panic".        *)
(***************************************************************************)
EXTENDS Integers, Sequences, FiniteSets, TLC

VARIABLES
    pc,          \* position of the run
    src,         \* the expression text (args[1])
    tokens,      \* the result of tokenize(src)
    tree,        \* the result of parse(tokens)
    printed,     \* tree.to_string() / the text with an operand wrapped
    reparsed,    \* parse(tokenize(printed))
    args,        \* the preset arguments still to be processed (args[2..])
    done,        \* the preset arguments already processed, with their outcome
    variables,   \* EvaluationContext.variables
    not_preset,  \* EvaluationContext.not_preset
    values,      \* EvaluationContext.values
    count,       \* the number of rows main computes
    row,         \* the loop variable i of the truth table loop
    rows         \* the printed truth table rows

vars == <<pc, src, tokens, tree, printed, reparsed, args, done,
          variables, not_preset, values, count, row, rows>>

-----------------------------------------------------------------------------
(* Strings *)

\* The characters of a string literal, in order.
Chars(s) == [i \in 1..Len(s) |-> SubSeq(s, i, i)]

\* A stand-in for an alphabetic character that UTF-8 encodes in two bytes.
EAcute == "e_acute"

Letters == {"a", "b", "c", "d", "e", "f", "x", "A", "B", EAcute}

\* char::is_alphabetic
IsAlphabetic(ch) == ch \in Letters

\* The number of bytes of a character's UTF-8 encoding.
Utf8Len(ch) == IF ch = EAcute THEN 2 ELSE 1

\* str::len: the length in bytes.
RECURSIVE ByteLen(_)
ByteLen(s) == IF s = <<>> THEN 0 ELSE Utf8Len(Head(s)) + ByteLen(Tail(s))

\* str::is_char_boundary
IsCharBoundary(s, n) == \E k \in 0..Len(s) : ByteLen(SubSeq(s, 1, k)) = n

\* The number of characters in the first n bytes (n a character boundary).
CharsIn(s, n) == CHOOSE k \in 0..Len(s) : ByteLen(SubSeq(s, 1, k)) = n

\* &s[..n] and &s[n..], for n a character boundary.
SliceTo(s, n) == SubSeq(s, 1, CharsIn(s, n))
SliceFrom(s, n) == SubSeq(s, CharsIn(s, n) + 1, Len(s))

\* str::starts_with
StartsWith(s, p) == Len(s) >= Len(p) /\ SubSeq(s, 1, Len(p)) = p

\* The code point order of the characters that occur in names.
CharCode(ch) ==
    CASE ch = "A" -> 65
      [] ch = "B" -> 66
      [] ch = "a" -> 97
      [] ch = "b" -> 98
      [] ch = "c" -> 99
      [] ch = "d" -> 100
      [] ch = "e" -> 101
      [] ch = "f" -> 102
      [] ch = "x" -> 120
      [] OTHER -> 233

\* Ord for String: lexicographic, a proper prefix first.
RECURSIVE StrLess(_, _)
StrLess(s, t) ==
    IF t = <<>> THEN FALSE
    ELSE IF s = <<>> THEN TRUE
    ELSE IF Head(s) = Head(t) THEN StrLess(Tail(s), Tail(t))
    ELSE CharCode(Head(s)) < CharCode(Head(t))

-----------------------------------------------------------------------------
(* Results *)

Ok(v) == [tag |-> "Ok", val |-> v]
Err(p, l, m, a) == [tag |-> "Err", pos |-> p, len |-> l, message |-> m, arg |-> a]
Panic(w) == [tag |-> "Panic", what |-> w]

IsOk(r) == r.tag = "Ok"
IsErr(r) == r.tag = "Err"
IsPanic(r) == r.tag = "Panic"

\* The value the variable holds before the run has produced it.
None == [tag |-> "None"]

-----------------------------------------------------------------------------
(* tokens.rs *)

ValueToken(p, v) == [kind |-> "Value", pos |-> p, value |-> v]
VariableToken(p, n) == [kind |-> "Variable", pos |-> p, name |-> n]
OperatorToken(p, n) == [kind |-> "Operator", pos |-> p, name |-> n]
OpenParanthesis(p) == [kind |-> "OpenParanthesis", pos |-> p]
CloseParanthesis(p) == [kind |-> "CloseParanthesis", pos |-> p]

token_pos(t) == t.pos

token_len(t) ==
    CASE t.kind = "Value" -> 1
      [] t.kind = "Variable" -> ByteLen(t.name)
      [] t.kind = "Operator" -> ByteLen(t.name)
      [] t.kind = "OpenParanthesis" -> 1
      [] t.kind = "CloseParanthesis" -> 1

token_name(t) ==
    CASE t.kind = "Value" -> IF t.value THEN <<"1">> ELSE <<"0">>
      [] t.kind = "Operator" -> t.name
      [] t.kind = "Variable" -> t.name
      [] t.kind = "OpenParanthesis" -> <<"(">>
      [] t.kind = "CloseParanthesis" -> <<")">>

\* str.chars().nth(pos): the character, or "" where unwrap finds None.
char_at(s, p) == IF p < Len(s) THEN s[p + 1] ELSE ""

\* ScanIdentifier that stops after one letter.
ScanOneLetter(rest, i) ==
    IF i < ByteLen(rest) /\ IsAlphabetic(char_at(rest, i)) THEN i + 1 ELSE i

\* The identifier loop: the final i, or -1 when char_at aborts.
RECURSIVE ScanIdentifier(_, _)
ScanIdentifier(rest, i) ==
    IF i < ByteLen(rest)
    THEN IF char_at(rest, i) = "" THEN -1
         ELSE IF IsAlphabetic(char_at(rest, i)) THEN ScanIdentifier(rest, i + 1)
         ELSE i
    ELSE i

\* SingleCharToken with ">" for one more operator.
SingleCharTokenWithGreater(ch, p) ==
    CASE ch \in {"0", "1"} -> ValueToken(p, ch = "1")
      [] ch \in {"&", "|", "^", "=", "!", ">"} -> OperatorToken(p, <<ch>>)
      [] ch = "(" -> OpenParanthesis(p)
      [] ch = ")" -> CloseParanthesis(p)
      [] OTHER -> None

\* The token of a single character other than a letter.
SingleCharToken(ch, p) ==
    CASE ch \in {"0", "1"} -> ValueToken(p, ch = "1")
      [] ch \in {"&", "|", "^", "=", "!"} -> OperatorToken(p, <<ch>>)
      [] ch = "(" -> OpenParanthesis(p)
      [] ch = ")" -> CloseParanthesis(p)
      [] OTHER -> None

\* The while loop of tokenize, from the state (toks, rest, p).
RECURSIVE TokenizeLoop(_, _, _, _)
TokenizeLoop(str, toks, rest, p) ==
    IF rest = <<>>
    THEN IF toks = <<>>
         THEN Err(ByteLen(str), 0, "no input.", "")
         ELSE Ok(toks)
    ELSE IF StartsWith(rest, <<" ">>) \/ StartsWith(rest, <<"\t">>)
    THEN TokenizeLoop(str, toks, SliceFrom(rest, 1), p + 1)
    ELSE LET i == ScanIdentifier(rest, 0) IN
         IF i < 0 THEN Panic("char_at: unwrap on None")
         ELSE IF i > 0
         THEN IF ~IsCharBoundary(rest, i)
              THEN Panic("byte index is not a char boundary")
              ELSE TokenizeLoop(str, Append(toks, VariableToken(p, SliceTo(rest, i))),
                                SliceFrom(rest, i), p + i)
         ELSE IF StartsWith(rest, <<"=", ">">>)
         THEN TokenizeLoop(str, Append(toks, OperatorToken(p, <<"=", ">">>)),
                           SliceFrom(rest, 2), p + 2)
         ELSE LET ch == char_at(rest, 0) IN
              IF SingleCharToken(ch, p) = None
              THEN Err(p, 1, "Invalid character '{}'", ch)
              ELSE TokenizeLoop(str, Append(toks, SingleCharToken(ch, p)),
                                SliceFrom(rest, 1), p + 1)

\* tokenize without the check of tokens.is_empty(): blanks give no tokens.
tokenize_without_empty_check(str) ==
    IF \A i \in 1..Len(str) : str[i] \in {" ", "\t"}
    THEN Ok(<<>>)
    ELSE TokenizeLoop(str, <<>>, str, 0)

tokenize(str) == TokenizeLoop(str, <<>>, str, 0)

-----------------------------------------------------------------------------
(* expression.rs: the expression tree *)

Value(v) == [node |-> "Value", value |-> v]
Variable(n) == [node |-> "Variable", name |-> n]
UnaryExpression(o, a) == [node |-> "Unary", op |-> o, arg |-> a]
BinaryExpression(o, l, r) == [node |-> "Binary", op |-> o, left |-> l, right |-> r]

\* Expression::precedence
precedence(e) ==
    CASE e.node = "Value" -> 4
      [] e.node = "Variable" -> 4
      [] e.node = "Unary" -> 3
      [] e.node = "Binary" ->
            CASE e.op = "OR" -> 1
              [] e.op = "XOR" -> 1
              [] e.op = "AND" -> 2
              [] e.op = "EQ" -> 0
              [] e.op = "IMP" -> 0

\* The operator symbol a binary node prints, with the blanks around it.
BinarySymbol(o) ==
    CASE o = "OR" -> Chars(" | ")
      [] o = "XOR" -> Chars(" ^ ")
      [] o = "AND" -> Chars(" & ")
      [] o = "EQ" -> Chars(" = ")
      [] o = "IMP" -> Chars(" => ")

\* PrintsBare with >= for >: a child of its parent's precedence printed bare.
PrintsBareOnEqual(child_precedence, parent_precedence) ==
    child_precedence >= parent_precedence

\* The rule of the free function to_string: whether a child is printed bare.
PrintsBare(child_precedence, parent_precedence) ==
    child_precedence > parent_precedence

\* Expression::to_string, and the free function to_string(expr, parent_precedence).
RECURSIVE Expression_to_string(_)

\* to_string that never wraps a child.
to_string_bare(expr, parent_precedence) == Expression_to_string(expr)

to_string(expr, parent_precedence) ==
    IF PrintsBare(precedence(expr), parent_precedence)
    THEN Expression_to_string(expr)
    ELSE <<"(">> \o Expression_to_string(expr) \o <<")">>

Expression_to_string(e) ==
    CASE e.node = "Value" -> IF e.value THEN <<"1">> ELSE <<"0">>
      [] e.node = "Variable" -> e.name
      [] e.node = "Unary" -> <<"!">> \o to_string(e.arg, precedence(e))
      [] e.node = "Binary" ->
            to_string(e.left, precedence(e)) \o BinarySymbol(e.op)
                \o to_string(e.right, precedence(e))

\* The constructor name a binary node dumps.
DumpName(o) ==
    CASE o = "OR" -> Chars("Or(")
      [] o = "XOR" -> Chars("Xor(")
      [] o = "AND" -> Chars("And(")
      [] o = "EQ" -> Chars("Eq(")
      [] o = "IMP" -> Chars("Imp(")

\* Expression::to_dump_string
RECURSIVE to_dump_string(_)
to_dump_string(e) ==
    CASE e.node = "Value" -> IF e.value THEN Chars("Value(1)") ELSE Chars("Value(0)")
      [] e.node = "Variable" -> Chars("Variable(") \o e.name \o <<")">>
      [] e.node = "Unary" -> Chars("Neg(") \o to_dump_string(e.arg) \o <<")">>
      [] e.node = "Binary" ->
            DumpName(e.op) \o to_dump_string(e.left) \o <<",">>
                \o to_dump_string(e.right) \o <<")">>

\* BinaryApply with the implication turned round: left || !right.
BinaryApplyConverse(o, l, r) ==
    CASE o = "OR" -> l \/ r
      [] o = "XOR" -> l # r
      [] o = "AND" -> l /\ r
      [] o = "EQ" -> l = r
      [] o = "IMP" -> l \/ ~r

\* The combination of the two operand values by a binary operator.
BinaryApply(o, l, r) ==
    CASE o = "OR" -> l \/ r
      [] o = "XOR" -> l # r
      [] o = "AND" -> l /\ r
      [] o = "EQ" -> l = r
      [] o = "IMP" -> ~l \/ r

\* The value a negation gives for its operand's value.
UnaryApply(o, a) == ~a

\* EvaluationContext::get on the value mapping (the caller has checked the key).
get(vals, name) == vals[name]

\* Expression::eval, on a value mapping that holds every variable of e.
RECURSIVE eval(_, _)
eval(e, vals) ==
    CASE e.node = "Value" -> e.value
      [] e.node = "Variable" -> get(vals, e.name)
      [] e.node = "Unary" -> UnaryApply(e.op, eval(e.arg, vals))
      [] e.node = "Binary" -> BinaryApply(e.op, eval(e.left, vals), eval(e.right, vals))

\* collect_variables: the names traverse visits.
RECURSIVE collect_variables(_)
collect_variables(e) ==
    CASE e.node = "Value" -> {}
      [] e.node = "Variable" -> {e.name}
      [] e.node = "Unary" -> collect_variables(e.arg)
      [] e.node = "Binary" -> collect_variables(e.left) \cup collect_variables(e.right)

-----------------------------------------------------------------------------
(* parser.rs *)

\* get_precedence with the levels of "&" and of "|", "^" exchanged.
get_precedence_exchanged(operator) ==
    CASE operator \in {<<"=">>, <<"=", ">">>} -> 0
      [] operator \in {<<"|">>, <<"^">>} -> 2
      [] operator = <<"&">> -> 1
      [] operator = <<"!">> -> 3
      [] OTHER -> -1

\* get_precedence without the arm of "^".
get_precedence_without_xor(operator) ==
    CASE operator \in {<<"=">>, <<"=", ">">>} -> 0
      [] operator = <<"|">> -> 1
      [] operator = <<"&">> -> 2
      [] operator = <<"!">> -> 3
      [] OTHER -> -1

\* get_precedence: -1 stands for the panic on an unsupported operator.
get_precedence(operator) ==
    CASE operator \in {<<"=">>, <<"=", ">">>} -> 0
      [] operator \in {<<"|">>, <<"^">>} -> 1
      [] operator = <<"&">> -> 2
      [] operator = <<"!">> -> 3
      [] OTHER -> -1

\* PrecedenceGreater with >= for >: the last of equal operators wins.
PrecedenceGreaterOrEqual(cprec, nprec) == cprec >= nprec

\* The comparison has_higher_precedence makes between two operator names.
PrecedenceGreater(cprec, nprec) == cprec > nprec

\* has_higher_precedence(current, new), current None or Some(index); new is an
\* Operator token.  TRUE, FALSE, or "panic" when get_precedence aborts.
has_higher_precedence(toks, current, new) ==
    IF current.tag = "Some"
    THEN LET c == get_precedence(toks[current.pos + 1].name)
             n == get_precedence(new.name)
         IN  IF c < 0 \/ n < 0 THEN "panic"
             ELSE IF PrecedenceGreater(c, n) THEN "true" ELSE "false"
    ELSE "true"

\* The loop of find_top_level_operator from index i on.
RECURSIVE FindTopLoop(_, _, _, _)
FindTopLoop(toks, i, plevel, result) ==
    IF i >= Len(toks) THEN result
    ELSE LET current == toks[i + 1] IN
         CASE current.kind = "Operator" ->
                IF plevel = 0
                THEN LET h == has_higher_precedence(toks, result, current) IN
                     IF h = "panic" THEN Panic("unsupported operator")
                     ELSE IF h = "true"
                     THEN FindTopLoop(toks, i + 1, plevel, [tag |-> "Some", pos |-> i])
                     ELSE FindTopLoop(toks, i + 1, plevel, result)
                ELSE FindTopLoop(toks, i + 1, plevel, result)
           [] current.kind = "OpenParanthesis" -> FindTopLoop(toks, i + 1, plevel + 1, result)
           [] current.kind = "CloseParanthesis" -> FindTopLoop(toks, i + 1, plevel - 1, result)
           [] OTHER -> FindTopLoop(toks, i + 1, plevel, result)

\* find_top_level_operator: Some(pos), None, or the panic of get_precedence.
find_top_level_operator(toks) == FindTopLoop(toks, 0, 0, None)

\* parse_single_token_expression that takes a parenthesis for the value 0.
parse_single_token_lenient(token) ==
    CASE token.kind = "Value" -> Ok(Value(token.value))
      [] token.kind = "Variable" -> Ok(Variable(token.name))
      [] token.kind = "Operator" ->
            Err(token.pos, ByteLen(token.name), "value or variable expected", "")
      [] OTHER -> Ok(Value(FALSE))

parse_single_token_expression(token) ==
    CASE token.kind = "Value" -> Ok(Value(token.value))
      [] token.kind = "Variable" -> Ok(Variable(token.name))
      [] token.kind = "Operator" ->
            Err(token.pos, ByteLen(token.name), "value or variable expected", "")
      [] token.kind = "OpenParanthesis" ->
            Err(token.pos, 1, "value or variable expected", "")
      [] token.kind = "CloseParanthesis" ->
            Err(token.pos, 1, "value or variable expected", "")

\* ParanthesisLoop that does not count: no error, and level 0 at the end.
ParanthesisLoopLevelZero(toks, i, plevel) == [tag |-> "Level", plevel |-> 0]

\* The loop of parse_paranthesis_expression from index i on: the error it
\* returns, or the final plevel.
RECURSIVE ParanthesisLoop(_, _, _)
ParanthesisLoop(toks, i, plevel) ==
    IF i >= Len(toks) THEN [tag |-> "Level", plevel |-> plevel]
    ELSE CASE toks[i + 1].kind = "OpenParanthesis" -> ParanthesisLoop(toks, i + 1, plevel + 1)
           [] toks[i + 1].kind = "CloseParanthesis" ->
                IF plevel - 1 < 0 /\ i + 1 < Len(toks)
                THEN Err(token_pos(toks[i + 2]), token_len(toks[i + 2]),
                         "operator expected", "")
                ELSE ParanthesisLoop(toks, i + 1, plevel - 1)
           [] OTHER -> ParanthesisLoop(toks, i + 1, plevel)

\* The binary node an operator symbol builds ("" for none).
BinaryOperatorOf(name) ==
    CASE name = <<"|">> -> "OR"
      [] name = <<"&">> -> "AND"
      [] name = <<"^">> -> "XOR"
      [] name = <<"=">> -> "EQ"
      [] name = <<"=", ">">> -> "IMP"
      [] OTHER -> ""

\* The index find_top_level_operator hands to parse_operator_expression.
SplitPosition(toks) == find_top_level_operator(toks)

\* StripParanthesis that keeps the last token: &tokens[1..].
StripOpenOnly(toks) == SubSeq(toks, 2, Len(toks))

\* The slice parse_paranthesis_expression parses: &tokens[1..(tokens.len() - 1)].
StripParanthesis(toks) == SubSeq(toks, 2, Len(toks) - 1)

RECURSIVE parse(_), parse_paranthesis_expression(_), parse_operator_expression(_, _)
parse(toks) ==
    IF Len(toks) = 0 THEN Err(0, 0, "Missing input", "")
    ELSE IF Len(toks) = 1 THEN parse_single_token_expression(toks[1])
    ELSE LET top == SplitPosition(toks) IN
         IF IsPanic(top) THEN top
         ELSE IF top.tag = "Some" THEN parse_operator_expression(toks, top.pos)
         ELSE parse_paranthesis_expression(toks)

parse_paranthesis_expression(toks) ==
    IF Len(toks) < 2 THEN Panic("index out of bounds")
    ELSE IF toks[1].kind # "OpenParanthesis"
    THEN Err(token_pos(toks[2]), token_len(toks[2]), "operator expected", "")
    ELSE LET walk == ParanthesisLoop(toks, 0, 0) IN
         IF IsErr(walk) THEN walk
         ELSE IF walk.plevel > 0
         THEN Err(token_pos(toks[Len(toks)]) + token_len(toks[Len(toks)]), 0,
                  "\")\" expected", "")
         ELSE parse(StripParanthesis(toks))

parse_operator_expression(toks, op_pos) ==
    LET token == toks[op_pos + 1]
        left == IF op_pos > 0 THEN parse(SubSeq(toks, 1, op_pos)) ELSE None
        right == IF op_pos < Len(toks) - 1
                 THEN parse(SubSeq(toks, op_pos + 2, Len(toks)))
                 ELSE None
    IN  IF left.tag \in {"Err", "Panic"} THEN left
        ELSE IF right.tag \in {"Err", "Panic"} THEN right
        ELSE IF right = None
        THEN Err(token_pos(token) + token_len(token), 0,
                 "missing right hand side operand", "")
        ELSE IF left # None
        THEN IF token_name(token) = <<"!">>
             THEN Err(token_pos(toks[1]),
                      token_pos(toks[op_pos]) + token_len(toks[op_pos]),
                      "unexpected left hand side operand", "")
             ELSE IF BinaryOperatorOf(token_name(token)) # ""
             THEN Ok(BinaryExpression(BinaryOperatorOf(token_name(token)),
                                      left.val, right.val))
             ELSE Err(token_pos(token), token_len(token),
                      "unknown operator '{}'", token_name(token))
        ELSE IF token_name(token) = <<"!">>
             THEN Ok(UnaryExpression("NEG", right.val))
             ELSE IF BinaryOperatorOf(token_name(token)) # ""
             THEN Err(token_pos(token), 0, "missing left hand side operand", "")
             ELSE Err(token_pos(token), token_len(token),
                      "unknown operator '{}'", token_name(token))

\* parse_expr of main.rs: tokenize, then parse.
parse_expr(str) ==
    LET toks == tokenize(str) IN
    IF IsOk(toks) THEN parse(toks.val) ELSE toks

\* The token ranges <<first, last>> (indices into the whole sequence, base the
\* index before toks[1]) of the slices parse is called on while it parses toks.
RECURSIVE ParsedSlices(_, _)
ParsedSlices(toks, base) ==
    {<<base + 1, base + Len(toks)>>} \cup
    IF Len(toks) < 2 THEN {}
    ELSE LET top == SplitPosition(toks) IN
         IF top.tag = "Some"
         THEN (IF top.pos > 0
               THEN ParsedSlices(SubSeq(toks, 1, top.pos), base)
               ELSE {})
              \cup
              (IF top.pos < Len(toks) - 1
               THEN ParsedSlices(SubSeq(toks, top.pos + 2, Len(toks)), base + top.pos + 1)
               ELSE {})
         ELSE IF top.tag = "None"
         THEN ParsedSlices(StripParanthesis(toks), base + 1)
         ELSE {}

\* The text with "(" put before byte from and ")" put before byte to.
WrapText(str, from, to) ==
    SliceTo(str, from) \o <<"(">> \o SliceTo(SliceFrom(str, from), to - from)
        \o <<")">> \o SliceFrom(str, to)

\* The text with the tokens toks[first..last] wrapped in a pair of parentheses.
WrapTokens(str, toks, first, last) ==
    WrapText(str, token_pos(toks[first]), token_pos(toks[last]) + token_len(toks[last]))

-----------------------------------------------------------------------------
(* expression.rs: the evaluation context *)

\* BTreeMap::insert
MapInsert(m, k, v) == [n \in DOMAIN m \cup {k} |-> IF n = k THEN v ELSE m[n]]

\* InOrder descending.
RECURSIVE InOrderDescending(_)
InOrderDescending(S) ==
    IF S = {} THEN <<>>
    ELSE LET most == CHOOSE n \in S : \A m \in S \ {n} : StrLess(m, n)
         IN  <<most>> \o InOrderDescending(S \ {most})

\* The iteration order of a BTreeSet<String>: ascending.
RECURSIVE InOrder(_)
InOrder(S) ==
    IF S = {} THEN <<>>
    ELSE LET least == CHOOSE n \in S : \A m \in S \ {n} : StrLess(n, m)
         IN  <<least>> \o InOrder(S \ {least})

\* The width of the integer type of the row index and of the row count.
U128Bits == 128

\* a & b on unsigned integers.
RECURSIVE BitAnd(_, _)
BitAnd(a, b) ==
    IF a = 0 \/ b = 0 THEN 0
    ELSE (a % 2) * (b % 2) + 2 * BitAnd(a \div 2, b \div 2)

\* RowBit without the shift: values & i.
RowBitUnshifted(mask, i) == BitAnd(mask, i) # 0

\* The bit set_not_presets gives the variable at position i of the iteration.
RowBit(mask, i) == BitAnd(mask, 2 ^ i) # 0

\* EvaluationContext::new
NewContext(vs) == [variables |-> vs, not_preset |-> vs, values |-> <<>>]

\* preset that records the value of a second preset before it fails.
preset_last_wins(ctxt, name, preset_value) ==
    IF name \in ctxt.variables
    THEN [ctxt |-> [variables |-> ctxt.variables,
                    not_preset |-> ctxt.not_preset \ {name},
                    values |-> MapInsert(ctxt.values, name, preset_value)],
          result |-> IF name \in ctxt.not_preset
                     THEN Ok(preset_value)
                     ELSE Err(0, 0, "variable '{}' preset twice - ignoring second time", name)]
    ELSE [ctxt |-> ctxt, result |-> Err(0, 0, "no variable named '{}'", name)]

\* EvaluationContext::preset: the context afterwards and the result.
preset(ctxt, name, preset_value) ==
    IF name \in ctxt.variables
    THEN IF name \in ctxt.not_preset
         THEN [ctxt |-> [variables |-> ctxt.variables,
                         not_preset |-> ctxt.not_preset \ {name},
                         values |-> MapInsert(ctxt.values, name, preset_value)],
               result |-> Ok(preset_value)]
         ELSE [ctxt |-> ctxt,
               result |-> Err(0, 0, "variable '{}' preset twice - ignoring second time", name)]
    ELSE [ctxt |-> ctxt, result |-> Err(0, 0, "no variable named '{}'", name)]

\* The loop of set_not_presets over the variables order[i + 1 ..].
RECURSIVE SetLoop(_, _, _, _)
SetLoop(vals, order, i, mask) ==
    IF i >= Len(order) THEN vals
    ELSE SetLoop(MapInsert(vals, order[i + 1], RowBit(mask, i)), order, i + 1, mask)

\* EvaluationContext::set_not_presets: the value mapping afterwards.
set_not_presets(ctxt, mask) == SetLoop(ctxt.values, InOrder(ctxt.not_preset), 0, mask)

\* The context the state holds.
Ctxt == [variables |-> variables, not_preset |-> not_preset, values |-> values]

\* RowCount that multiplies: 2 * len.
RowCountDoubled(k) == 2 * k

\* count of main: 1 << ctx.not_preset.len(), for a length below the width.
RowCount(k) == 2 ^ k

\* What print_table_result prints: the value of every variable, and the result.
TableRow(ctxt, result) ==
    [assignment |-> [v \in ctxt.variables |-> get(ctxt.values, v)], result |-> result]

-----------------------------------------------------------------------------
(* Inputs *)

\* The longest text of the exhaustive part of the inputs.
MaxLen == 4

\* The most preset arguments of a run.
MaxPresets == 3

Alphabet == {"a", "b", "!", "&", "|", "=", ">", "(", ")", " "}

\* Every text over Alphabet of at most MaxLen characters.
Texts == UNION {[1..n -> Alphabet] : n \in 0..MaxLen}

\* The texts of the tests of the repository and of its documentation.
Examples == {Chars(s) : s \in {
    "a b", "(a &  b)", "a & b & c", "!a & b ^ c | d = e => f",
    "!a & b ^ c | e => f", "!a & b ^ c | e", "!a & b | e", "!a & b", "!a",
    "0 1 a bc", "& ! ( )", "!", "A&", "!|", "A&|", "&a", "a!b",
    "!a a|b a&b a^b a=>b a=b", "a&b", "(a", "(a))", "(a)(b)", "((a|b)&c)",
    "(a|b&c) = ((a|b)&c)", "(abc | !def) ^ (!abc & def)", "(a=0) & (b=1)",
    "a|b", "", "  \t", "a # b", "a ^ b | c", "a | b ^ c", "a => b = c",
    "a = b => c", "!!a", "!(a & b) | !(!c)", "a & (b | c) & d",
    "((a => b) => c) => d", "a => (b => (c => d))", "(a ^ b) = !(a = b)",
    "\t", " \t \t ", "\t\ta", "a\t&\tb", "a>b", "ab =># a", "a # b $", "==>", "a$>",
    "  a!b", "(a!b)", "a | (b ! c)", "ab!!c", "(a) ! b", "a & b ! c", "a!b & c",
    "(a))b", "(a)b", "(a)(b)(c)", "((a)(b))", "a & (b)(c)", "((a)) b)", "()a",
    "(a&b", "((a)", "a | (b", "(a|(b&c)", "((", "(()", "(", "((a) b",
    "a ^ (b | c) & d)", "a ^ b | (c", "((ab|b) & (cd", " ((a) & ((b) | bc",
    "((a => b) => !!c) => d", "(!!a & b) & (c | (d))) | ((e)",
    "ab\t=> (c = de)", ")a(", ")(", "a)", "a & b)", "(a & b))", "a ^ (b | c", "!(a", "a & !", "()"}}
    \cup {<<EAcute>>, <<"a", EAcute>>, <<EAcute, "a", "&", "b">>, <<EAcute, "&", "a">>}

BinarySymbols == {"&", "|", "^", "=", "=>"}

\* Chains of three and four operands, each pair of binary operators.
Chains ==
    {Chars(x \o " " \o o1 \o " " \o y \o o2 \o z) :
        x \in {"a", "!a"}, o1 \in BinarySymbols, y \in {"b", "(b|a)"},
        o2 \in BinarySymbols, z \in {"c", "!c"}}
    \cup {Chars("a" \o o1 \o "b" \o o2 \o "c" \o o3 \o "d") :
        o1 \in BinarySymbols, o2 \in BinarySymbols, o3 \in BinarySymbols}

Inputs == Texts \cup Examples \cup Chains

\* The expressions of the truth table runs.
TableInputs == {Chars(s) : s \in {
    "a|b", "a&b", "!a", "1", "a ^ b", "a => b", "a = b", "b & a | !c",
    "(a|b&c) = ((a|b)&c)", "B => ab ^ a", "a b", "0 = x"}}

\* The preset arguments of the truth table runs.
PresetArgs == {Chars(s) : s \in {"+a", "-a", "+b", "-b", "+x", "-c", "+ab", "a"}}

ArgLists == UNION {[1..n -> PresetArgs] : n \in 0..MaxPresets}

\* The most tokens of a sequence handed to parse directly.
MaxTokens == 4

\* The texts of the tokens a caller of parse builds; "?" and "~" are Operator
\* tokens of a symbol the tokenizer never produces.
TokenSymbols == {"a", "1", "!", "&", "=>", "?", "~", "(", ")"}

\* The token a caller builds with the constructors of Token.
HandToken(sym, p) ==
    CASE sym = "a" -> VariableToken(p, Chars(sym))
      [] sym = "1" -> ValueToken(p, TRUE)
      [] sym = "(" -> OpenParanthesis(p)
      [] sym = ")" -> CloseParanthesis(p)
      [] OTHER -> OperatorToken(p, Chars(sym))

\* The tokens of the symbols syms, one after the other from offset p on.
RECURSIVE HandTokens(_, _)
HandTokens(syms, p) ==
    IF syms = <<>> THEN <<>>
    ELSE <<HandToken(Head(syms), p)>> \o HandTokens(Tail(syms), p + Len(Head(syms)))

\* The text the tokens come from.
RECURSIVE TextOf(_)
TextOf(syms) == IF syms = <<>> THEN <<>> ELSE Chars(Head(syms)) \o TextOf(Tail(syms))

SymbolLists == UNION {[1..n -> TokenSymbols] : n \in 0..MaxTokens}

-----------------------------------------------------------------------------
(* The run *)

Blank ==
    /\ tokens = None
    /\ tree = None
    /\ printed = None
    /\ reparsed = None
    /\ done = <<>>
    /\ variables = {}
    /\ not_preset = {}
    /\ values = <<>>
    /\ count = 0
    /\ row = 0
    /\ rows = <<>>

\* A run on any text, without preset arguments.
Init ==
    /\ pc = "start"
    /\ src \in Inputs
    /\ args = <<>>
    /\ Blank

\* A run of main on an expression and a list of preset arguments.
InitTable ==
    /\ pc = "start"
    /\ src \in TableInputs
    /\ args \in ArgLists
    /\ Blank

\* A call of parse on a token sequence the caller has built.
InitTokens ==
    /\ pc = "tokenized"
    /\ \E syms \in SymbolLists :
        /\ src = TextOf(syms)
        /\ tokens = Ok(HandTokens(syms, 0))
    /\ args = <<>>
    /\ tree = None
    /\ printed = None
    /\ reparsed = None
    /\ done = <<>>
    /\ variables = {}
    /\ not_preset = {}
    /\ values = <<>>
    /\ count = 0
    /\ row = 0
    /\ rows = <<>>

\* Where a run goes on a result: on, to the error exit, or to the abort.
After(result, on) ==
    CASE IsOk(result) -> on
      [] IsErr(result) -> "exit"
      [] IsPanic(result) -> "abort"

\* parse_expr, first half: tokenize(str).
Tokenize ==
    /\ pc = "start"
    /\ tokens' = tokenize(src)
    /\ pc' = After(tokens', "tokenized")
    /\ UNCHANGED <<src, tree, printed, reparsed, args, done,
                   variables, not_preset, values, count, row, rows>>

\* parse_expr, second half: parse(&tokens).
Parse ==
    /\ pc = "tokenized"
    /\ tree' = parse(tokens.val)
    /\ pc' = After(tree', "parsed")
    /\ UNCHANGED <<src, tokens, printed, reparsed, args, done,
                   variables, not_preset, values, count, row, rows>>

\* The tree printed with to_string, and the print parsed again.
RoundTrip ==
    /\ pc = "parsed"
    /\ printed' = Expression_to_string(tree.val)
    /\ reparsed' = parse_expr(printed')
    /\ pc' = "printed"
    /\ UNCHANGED <<src, tokens, tree, args, done,
                   variables, not_preset, values, count, row, rows>>

\* One operand of the parsed expression (or all of it) wrapped in a further
\* pair of parentheses, and the text parsed again.
WrapOperand ==
    /\ pc = "parsed"
    /\ \E slice \in ParsedSlices(tokens.val, 0) :
        /\ printed' = WrapTokens(src, tokens.val, slice[1], slice[2])
        /\ reparsed' = parse_expr(printed')
    /\ pc' = "wrapped"
    /\ UNCHANGED <<src, tokens, tree, args, done,
                   variables, not_preset, values, count, row, rows>>

\* main: the context of the variables of the expression.
CreateContext ==
    /\ pc = "parsed"
    /\ LET ctxt == NewContext(collect_variables(tree.val)) IN
        /\ variables' = ctxt.variables
        /\ not_preset' = ctxt.not_preset
        /\ values' = ctxt.values
    /\ pc' = "presets"
    /\ UNCHANGED <<src, tokens, tree, printed, reparsed, args, done, count, row, rows>>

\* main: one turn of the loop over the preset arguments.
Preset ==
    /\ pc = "presets"
    /\ args # <<>>
    /\ LET arg == Head(args) IN
        IF StartsWith(arg, <<"-">>) \/ StartsWith(arg, <<"+">>)
        THEN LET r == preset(Ctxt, SliceFrom(arg, 1), StartsWith(arg, <<"+">>)) IN
             /\ variables' = r.ctxt.variables
             /\ not_preset' = r.ctxt.not_preset
             /\ values' = r.ctxt.values
             /\ done' = Append(done, [arg |-> arg, result |-> r.result])
             /\ pc' = "presets"
        ELSE /\ done' = Append(done, [arg |-> arg, result |-> Err(0, 0, "invalid preset '{}'", arg)])
             /\ pc' = "exit"
             /\ UNCHANGED <<variables, not_preset, values>>
    /\ args' = Tail(args)
    /\ UNCHANGED <<src, tokens, tree, printed, reparsed, count, row, rows>>

\* main: the row count and the table header, after the last preset argument.
PrintHeader ==
    /\ pc = "presets"
    /\ args = <<>>
    /\ IF Cardinality(not_preset) < U128Bits
       THEN count' = RowCount(Cardinality(not_preset)) /\ pc' = "table"
       ELSE \/ count' = 0 /\ pc' = "abort"
            \/ count' = RowCount(Cardinality(not_preset) % U128Bits) /\ pc' = "table"
    /\ row' = 0
    /\ UNCHANGED <<src, tokens, tree, printed, reparsed, args, done,
                   variables, not_preset, values, rows>>

\* main: one turn of the loop over the rows.
PrintRow ==
    /\ pc = "table"
    /\ row < count
    /\ values' = set_not_presets(Ctxt, row)
    /\ rows' = Append(rows, TableRow([variables |-> variables, not_preset |-> not_preset,
                                      values |-> values'],
                                     eval(tree.val, values')))
    /\ row' = row + 1
    /\ UNCHANGED <<pc, src, tokens, tree, printed, reparsed, args, done,
                   variables, not_preset, count>>

\* main: the end of the loop over the rows.
Finish ==
    /\ pc = "table"
    /\ row >= count
    /\ pc' = "done"
    /\ UNCHANGED <<src, tokens, tree, printed, reparsed, args, done,
                   variables, not_preset, values, count, row, rows>>

Next == Tokenize \/ Parse \/ RoundTrip \/ WrapOperand

NextTable == Tokenize \/ Parse \/ CreateContext \/ Preset \/ PrintHeader \/ PrintRow \/ Finish

Spec == Init /\ [][Next]_vars

SpecTable == InitTable /\ [][NextTable]_vars

NextTokens == Parse \/ RoundTrip

SpecTokens == InitTokens /\ [][NextTokens]_vars

-----------------------------------------------------------------------------
(* The parser's claims, under Spec *)

\* Every assignment of the variables of e.
Assignments(e) == [collect_variables(e) -> BOOLEAN]

\* The run has a parsed tree.
Parsed == tree # None /\ IsOk(tree)

\* C1: printing a parsed tree with to_string and parsing the print again
\* succeeds, and the new tree evaluates like the old one under every full
\* assignment of the variables.
C1_RoundTripKeepsEval ==
    pc = "printed" =>
        /\ IsOk(reparsed)
        /\ collect_variables(reparsed.val) = collect_variables(tree.val)
        /\ \A A \in Assignments(tree.val) : eval(reparsed.val, A) = eval(tree.val, A)

\* A tree of three variables was printed with parentheses and parsed again.
C1_Witness ==
    /\ pc = "printed"
    /\ \E i \in 1..Len(printed) : printed[i] = "("
    /\ Cardinality(collect_variables(tree.val)) >= 3

\* The tree of a Value or Variable token.
Atom(t) == IF t.kind = "Value" THEN Value(t.value) ELSE Variable(t.name)

IsAtomToken(t) == t.kind \in {"Value", "Variable"}

\* The precedence table of the specification.
TablePrecedence(name) ==
    CASE name \in {Chars("="), Chars("=>")} -> 0
      [] name \in {Chars("|"), Chars("^")} -> 1
      [] name = Chars("&") -> 2
      [] name = Chars("!") -> 3

\* The tokens are a op1 b op2 c, op1 and op2 binary and of one table level.
IsChain(toks) ==
    /\ Len(toks) = 5
    /\ IsAtomToken(toks[1]) /\ IsAtomToken(toks[3]) /\ IsAtomToken(toks[5])
    /\ toks[2].kind = "Operator" /\ toks[4].kind = "Operator"
    /\ toks[2].name # Chars("!") /\ toks[4].name # Chars("!")
    /\ TablePrecedence(toks[2].name) = TablePrecedence(toks[4].name)

LongExample == Chars("!a & b ^ c | d = e => f")

\* C2 (as stated): a op1 b op2 c, op1 and op2 of one level, parses to
\* op2(op1(a,b),c), and the long example parses to Imp(..., Variable(f)).
C2_LeftToRight ==
    Parsed =>
        /\ IsChain(tokens.val) =>
            tree.val = BinaryExpression(BinaryOperatorOf(tokens.val[4].name),
                            BinaryExpression(BinaryOperatorOf(tokens.val[2].name),
                                Atom(tokens.val[1]), Atom(tokens.val[3])),
                            Atom(tokens.val[5]))
        /\ src = LongExample =>
            /\ tree.val.op = "IMP"
            /\ tree.val.right = Variable(Chars("f"))

\* C2 (amended): a op1 b op2 c, op1 and op2 of one level, parses to
\* op1(a,op2(b,c)): operators of one level associate right-to-left; the long
\* example parses to Eq(..., Imp(Variable(e),Variable(f))).
C2_RightToLeft ==
    Parsed =>
        /\ IsChain(tokens.val) =>
            tree.val = BinaryExpression(BinaryOperatorOf(tokens.val[2].name),
                            Atom(tokens.val[1]),
                            BinaryExpression(BinaryOperatorOf(tokens.val[4].name),
                                Atom(tokens.val[3]), Atom(tokens.val[5])))
        /\ src = LongExample =>
            /\ tree.val.op = "EQ"
            /\ tree.val.right =
                   BinaryExpression("IMP", Variable(Chars("e")), Variable(Chars("f")))

\* A chain of two different operators of one level has been parsed.
C2_Witness ==
    /\ Parsed
    /\ IsChain(tokens.val)
    /\ tokens.val[2].name = Chars("^")
    /\ tokens.val[4].name = Chars("|")

\* The parenthesis depth in front of the token at index i (from 0).
DepthBefore(toks, i) ==
    Cardinality({j \in 1..i : toks[j].kind = "OpenParanthesis"})
        - Cardinality({j \in 1..i : toks[j].kind = "CloseParanthesis"})

\* The indices (from 0) of the Operator tokens at depth 0.
TopLevelOperators(toks) ==
    {i \in 0..(Len(toks) - 1) :
        toks[i + 1].kind = "Operator" /\ DepthBefore(toks, i) = 0}

\* What C3 says find_top_level_operator returns for a slice.
FirstLowest(toks, found) ==
    IF TopLevelOperators(toks) = {} THEN found = None
    ELSE /\ found.tag = "Some"
         /\ found.pos \in TopLevelOperators(toks)
         /\ \A j \in TopLevelOperators(toks) :
                \/ TablePrecedence(toks[found.pos + 1].name)
                       < TablePrecedence(toks[j + 1].name)
                \/ /\ TablePrecedence(toks[found.pos + 1].name)
                          = TablePrecedence(toks[j + 1].name)
                   /\ found.pos <= j

\* C3: on every slice of the tokens, find_top_level_operator returns None when
\* no Operator token is at depth 0, and else the first of the depth-0 Operator
\* tokens of the lowest table precedence: index 1 for a & b & c, index 8 for
\* the long example.
C3_FirstLowestOperator ==
    pc = "tokenized" =>
        /\ \A lo \in 1..Len(tokens.val) : \A hi \in lo..Len(tokens.val) :
               FirstLowest(SubSeq(tokens.val, lo, hi),
                           find_top_level_operator(SubSeq(tokens.val, lo, hi)))
        /\ src = Chars("a & b & c") =>
               find_top_level_operator(tokens.val) = [tag |-> "Some", pos |-> 1]
        /\ src = LongExample =>
               find_top_level_operator(tokens.val) = [tag |-> "Some", pos |-> 8]

\* Tokens with operators of three levels outside and an operator inside
\* parentheses.
C3_Witness ==
    /\ pc = "tokenized"
    /\ Cardinality({TablePrecedence(tokens.val[i + 1].name) :
                        i \in TopLevelOperators(tokens.val)}) >= 3
    /\ \E i \in 1..Len(tokens.val) :
           tokens.val[i].kind = "Operator" /\ DepthBefore(tokens.val, i - 1) > 0

\* The place of an operator in the order of the usage text: those listed first
\* are evaluated first.
UsageOrder(name) ==
    CASE name = Chars("!") -> 0
      [] name = Chars("&") -> 1
      [] name = Chars("^") -> 2
      [] name = Chars("|") -> 3
      [] name = Chars("=>") -> 4
      [] name = Chars("=") -> 5

\* The operator symbol of the root of a tree that is not a leaf.
RootSymbol(e) ==
    CASE e.node = "Unary" -> Chars("!")
      [] e.node = "Binary" ->
            CASE e.op = "OR" -> Chars("|")
              [] e.op = "XOR" -> Chars("^")
              [] e.op = "AND" -> Chars("&")
              [] e.op = "EQ" -> Chars("=")
              [] e.op = "IMP" -> Chars("=>")

OperatorNames(toks) == {toks[i].name : i \in {j \in 1..Len(toks) : toks[j].kind = "Operator"}}

HasParanthesis(toks) ==
    \E i \in 1..Len(toks) : toks[i].kind \in {"OpenParanthesis", "CloseParanthesis"}

\* C4 (as stated): without parentheses the operators bind in the order of the
\* usage text, so the root of the tree is the operator that comes last in that
\* order: Or for a ^ b | c and a | b ^ c, Eq for a => b = c and a = b => c.
C4_UsageOrderBinds ==
    (Parsed /\ ~HasParanthesis(tokens.val) /\ OperatorNames(tokens.val) # {}) =>
        /\ \A name \in OperatorNames(tokens.val) :
               UsageOrder(name) <= UsageOrder(RootSymbol(tree.val))
        /\ src \in {Chars("a ^ b | c"), Chars("a | b ^ c")} => tree.val.op = "OR"
        /\ src \in {Chars("a => b = c"), Chars("a = b => c")} => tree.val.op = "EQ"

\* C5: an operand of the parsed expression, or all of it, wrapped in one more
\* pair of parentheses parses again, to a tree of the same dump string.
C5_RedundantParanthesis ==
    pc = "wrapped" =>
        /\ IsOk(reparsed)
        /\ to_dump_string(reparsed.val) = to_dump_string(tree.val)

\* An inner operand of a binary expression with parentheses was wrapped.
C5_Witness ==
    /\ pc = "wrapped"
    /\ tree.val.node = "Binary"
    /\ HasParanthesis(tokens.val)
    /\ printed # <<"(">> \o src \o <<")">>
    /\ Len(printed) >= 9

-----------------------------------------------------------------------------
(* The truth table's claims, under SpecTable *)

\* The assignment of a row, on the variables S only.
Restricted(assignment, S) == [v \in S |-> assignment[v]]

\* C6: whatever the presets were, the loop prints one row for each assignment
\* of the not-preset variables: 2^k rows for k such variables (one row for
\* k = 0), pairwise distinct on them, every combination among them.
C6_TableComplete ==
    pc = "done" =>
        /\ Len(rows) = Cardinality([not_preset -> BOOLEAN])
        /\ \A i, j \in 1..Len(rows) :
               i # j => Restricted(rows[i].assignment, not_preset)
                            # Restricted(rows[j].assignment, not_preset)
        /\ {Restricted(rows[i].assignment, not_preset) : i \in 1..Len(rows)}
               = [not_preset -> BOOLEAN]

\* A finished table of four rows at least, after a successful preset.
C6_Witness ==
    /\ pc = "done"
    /\ Cardinality(not_preset) >= 2
    /\ not_preset # variables

\* The operand pairs for which a binary truth function is true.
TruthTable(o) ==
    CASE o = "OR" -> {<<TRUE, TRUE>>, <<TRUE, FALSE>>, <<FALSE, TRUE>>}
      [] o = "AND" -> {<<TRUE, TRUE>>}
      [] o = "XOR" -> {<<TRUE, FALSE>>, <<FALSE, TRUE>>}
      [] o = "EQ" -> {<<TRUE, TRUE>>, <<FALSE, FALSE>>}
      [] o = "IMP" -> {<<TRUE, TRUE>>, <<FALSE, TRUE>>, <<FALSE, FALSE>>}

\* The nodes of a tree.
RECURSIVE Nodes(_)
Nodes(e) ==
    {e} \cup
    CASE e.node = "Unary" -> Nodes(e.arg)
      [] e.node = "Binary" -> Nodes(e.left) \cup Nodes(e.right)
      [] OTHER -> {}

\* eval gives node n the value of its truth function under assignment A.
NodeEvaluatesRight(n, A) ==
    CASE n.node = "Value" -> eval(n, A) = n.value
      [] n.node = "Variable" -> eval(n, A) = A[n.name]
      [] n.node = "Unary" -> <<eval(n.arg, A), eval(n, A)>> \in {<<TRUE, FALSE>>, <<FALSE, TRUE>>}
      [] n.node = "Binary" ->
            eval(n, A) = (<<eval(n.left, A), eval(n.right, A)>> \in TruthTable(n.op))

\* C7: in every row of the table the result is eval's, and eval gives every
\* node of the tree its standard truth function: the constant, the variable's
\* value, the negation, and OR, AND, XOR, EQ, IMP of the operands' values.
C7_EvalTruthFunctions ==
    \A i \in 1..Len(rows) :
        /\ rows[i].result = eval(tree.val, rows[i].assignment)
        /\ \A n \in Nodes(tree.val) : NodeEvaluatesRight(n, rows[i].assignment)

\* A finished table of an implication between a variable and an exclusive or.
C7_Witness ==
    /\ pc = "done"
    /\ Len(rows) = 8
    /\ tree.val.node = "Binary" /\ tree.val.op = "IMP"
    /\ \E n \in Nodes(tree.val) : n.node = "Binary" /\ n.op = "XOR"

\* The name and the value of a processed preset argument with a sign.
PresetName(d) == Tail(d.arg)
PresetValue(d) == Head(d.arg) = "+"
HasSign(d) == d.arg # <<>> /\ Head(d.arg) \in {"+", "-"}

\* The processed preset arguments that name v.
PresetsOf(v) == {i \in 1..Len(done) : HasSign(done[i]) /\ PresetName(done[i]) = v}

\* The value the first preset of v gave.
FirstPresetValue(v) ==
    PresetValue(done[CHOOSE i \in PresetsOf(v) : \A j \in PresetsOf(v) : i <= j])

\* Every preset variable holds the value of its first preset.
FirstWins ==
    \A v \in variables \ not_preset :
        /\ PresetsOf(v) # {}
        /\ v \in DOMAIN values
        /\ values[v] = FirstPresetValue(v)

\* A step that processes a preset of a name that is not declared, or that is
\* preset already, records an Err and changes nothing of the context.
SoftFailure ==
    (/\ pc = "presets"
     /\ Len(done') = Len(done) + 1
     /\ HasSign(done'[Len(done')])
     /\ \/ PresetName(done'[Len(done')]) \notin variables
        \/ PresetName(done'[Len(done')]) \notin not_preset)
    => /\ IsErr(done'[Len(done')].result)
       /\ UNCHANGED <<variables, not_preset, values>>

\* C8: a preset of an undeclared name and a preset of a name preset before
\* return an Err and leave variables, not_preset and the values unchanged;
\* a preset variable keeps the value of its first successful preset.
C8_PresetFailuresSoft == [][SoftFailure]_vars /\ []FirstWins

\* A variable preset twice with different values, and an undeclared name.
C8_Witness ==
    /\ pc = "presets"
    /\ \E i, j \in 1..Len(done) :
        /\ i < j
        /\ IsOk(done[i].result) /\ IsErr(done[j].result)
        /\ PresetName(done[i]) = PresetName(done[j])
        /\ PresetValue(done[i]) # PresetValue(done[j])
    /\ \E i \in 1..Len(done) :
        HasSign(done[i]) /\ PresetName(done[i]) \notin variables

\* The number of not-preset variables before v in lexicographic order.
Position(v) == Cardinality({w \in not_preset : StrLess(w, v)})

\* Bit j of i.
Bit(i, j) == (i \div (2 ^ j)) % 2 = 1

\* After set_not_presets(row - 1): a value for every variable, bit j of the
\* row index for the j-th not-preset variable, the preset value for the others.
RowValues ==
    (pc = "table" /\ row > 0) =>
        /\ DOMAIN values = variables
        /\ \A v \in not_preset : values[v] = Bit(row - 1, Position(v))
        /\ FirstWins

\* The step of a row leaves variables and not_preset alone.
RowFrame == (row' # row) => UNCHANGED <<variables, not_preset>>

\* C9: after any presets, set_not_presets(i) leaves a value for every declared
\* variable: bit j of i for the j-th not-preset variable in lexicographic
\* order, the preset value for a preset variable; variables and not_preset
\* are unchanged by the call.
C9_SetNotPresets == []RowValues /\ [][RowFrame]_vars

\* The fourth row of a table of two not-preset variables and a preset one.
C9_Witness ==
    /\ pc = "table"
    /\ row = 4
    /\ Cardinality(not_preset) = 2
    /\ Cardinality(variables) = 3

\* A row of the table of a|b.
RowAB(a, b, r) ==
    [assignment |-> [v \in {Chars("a"), Chars("b")} |-> IF v = Chars("a") THEN a ELSE b],
     result |-> r]

\* The run of a|b without presets has finished.
TableOfAOrB == pc = "done" /\ src = Chars("a|b") /\ done = <<>>

\* C10 (as stated): the table of a|b is (a=0,b=0)->0, (a=0,b=1)->1,
\* (a=1,b=0)->1, (a=1,b=1)->1 in this order.
C10_RowsBFastest ==
    TableOfAOrB =>
        rows = <<RowAB(FALSE, FALSE, FALSE), RowAB(FALSE, TRUE, TRUE),
                 RowAB(TRUE, FALSE, TRUE), RowAB(TRUE, TRUE, TRUE)>>

\* C10 (amended): the table of a|b is (a=0,b=0)->0, (a=1,b=0)->1,
\* (a=0,b=1)->1, (a=1,b=1)->1 in this order: the first variable is bit 0 of
\* the row index and changes fastest.
C10_RowsAFastest ==
    TableOfAOrB =>
        rows = <<RowAB(FALSE, FALSE, FALSE), RowAB(TRUE, FALSE, TRUE),
                 RowAB(FALSE, TRUE, TRUE), RowAB(TRUE, TRUE, TRUE)>>

\* The finished table of a|b, of four rows.
C10_Witness == TableOfAOrB /\ Len(rows) = 4

-----------------------------------------------------------------------------
(* The tokenizer's claims, under Spec *)

Blanks == {" ", "\t"}

OnlyBlanks(s) == \A i \in 1..Len(s) : s[i] \in Blanks

\* tokenize has returned.
Tokenized == tokens # None

\* C11: for the empty text and for every text of spaces and tabs only,
\* tokenize returns the error "no input." with pos the length of the text and
\* len 0.
C11_NoInput ==
    (Tokenized /\ OnlyBlanks(src)) =>
        /\ IsErr(tokens)
        /\ tokens.message = "no input."
        /\ tokens.pos = Len(src)
        /\ tokens.len = 0

\* A text of three blanks at least, a tab among them, has been tokenized.
C11_Witness ==
    /\ Tokenized
    /\ OnlyBlanks(src)
    /\ Len(src) >= 3
    /\ \E i \in 1..Len(src) : src[i] = "\t"

\* Every character of the text is one byte long.
IsAscii(s) == \A i \in 1..Len(s) : Utf8Len(s[i]) = 1

\* The characters C12 lists: blanks, letters, and the one-character tokens.
ListedCharacters ==
    Blanks \cup (Letters \ {EAcute}) \cup {"0", "1", "&", "|", "^", "=", "!", "(", ")"}

\* The offsets (from 0) of the characters that are not listed.
Unlisted(s) == {i \in 0..(Len(s) - 1) : s[i + 1] \notin ListedCharacters}

\* The same, but for a ">" that directly follows a "=".
Invalid(s) == {i \in Unlisted(s) : ~(s[i + 1] = ">" /\ i > 0 /\ s[i] = "=")}

Least(S) == CHOOSE i \in S : \A j \in S : i <= j

\* C12 (as stated): a text of one-byte characters with a character that is
\* not a blank, a letter or one of 0 1 & | ^ = ! ( ) gives an error with pos
\* the offset of the first such character and len 1.
C12_FirstUnlisted ==
    (Tokenized /\ IsAscii(src) /\ Unlisted(src) # {}) =>
        /\ IsErr(tokens)
        /\ tokens.pos = Least(Unlisted(src))
        /\ tokens.len = 1

\* C12 (amended): as stated, but a ">" directly after a "=" is part of the
\* operator => and not an offending character: the error is at the first
\* offending character, has len 1 and names that character, whatever comes
\* before or after it; a text with no other unlisted character gives no such
\* error.
C12_FirstInvalid ==
    (Tokenized /\ IsAscii(src)) =>
        IF Invalid(src) # {}
        THEN /\ IsErr(tokens)
             /\ tokens.message = "Invalid character '{}'"
             /\ tokens.pos = Least(Invalid(src))
             /\ tokens.len = 1
             /\ tokens.arg = src[Least(Invalid(src)) + 1]
        ELSE IsErr(tokens) => tokens.message = "no input."

\* An offending character after a variable and a =>, with more text behind.
C12_Witness ==
    /\ Tokenized
    /\ IsAscii(src)
    /\ Invalid(src) # {}
    /\ Unlisted(src) # Invalid(src)
    /\ Least(Invalid(src)) > Least(Unlisted(src))
    /\ Least(Invalid(src)) + 1 < Len(src)

\* The token kind the first character of a token makes.
KindOf(ch) ==
    CASE ch \in {"0", "1"} -> "Value"
      [] ch \in Letters -> "Variable"
      [] ch = "(" -> "OpenParanthesis"
      [] ch = ")" -> "CloseParanthesis"
      [] OTHER -> "Operator"

\* The offset just behind the token.
TokenEnd(t) == token_pos(t) + token_len(t)

\* C13: a text of one-byte allowed characters that is not all blanks
\* tokenizes; each token's pos is the offset of its first character in the
\* text, the text from pos to pos + len is the token's text, the spans
\* increase without overlap and cover every character that is not a blank, a
\* maximal run of letters is one Variable token and every => is one Operator
\* token of length 2.
C13_TokensInSourceOrder ==
    (Tokenized /\ IsAscii(src) /\ Invalid(src) = {} /\ ~OnlyBlanks(src)) =>
        /\ IsOk(tokens)
        /\ Len(tokens.val) >= 1
        /\ \A i \in 1..Len(tokens.val) :
            LET t == tokens.val[i] IN
            /\ TokenEnd(t) <= Len(src)
            /\ SubSeq(src, token_pos(t) + 1, TokenEnd(t)) = token_name(t)
            /\ t.kind = KindOf(src[token_pos(t) + 1])
            /\ i < Len(tokens.val) => TokenEnd(t) <= token_pos(tokens.val[i + 1])
            /\ t.kind = "Variable" =>
                /\ token_pos(t) = 0 \/ src[token_pos(t)] \notin Letters
                /\ TokenEnd(t) = Len(src) \/ src[TokenEnd(t) + 1] \notin Letters
        /\ \A k \in 0..(Len(src) - 1) :
            /\ src[k + 1] \notin Blanks =>
                \E i \in 1..Len(tokens.val) :
                    token_pos(tokens.val[i]) <= k /\ k < TokenEnd(tokens.val[i])
            /\ (src[k + 1] = "=" /\ k + 1 < Len(src) /\ src[k + 2] = ">") =>
                \E i \in 1..Len(tokens.val) :
                    tokens.val[i] = OperatorToken(k, <<"=", ">">>)

\* Tokens of a text with a tab, a => and a variable of two letters that does
\* not start the text.
C13_Witness ==
    /\ Tokenized
    /\ IsOk(tokens)
    /\ \E i \in 1..Len(src) : src[i] = "\t"
    /\ \E i \in 1..Len(tokens.val) :
        tokens.val[i].kind = "Operator" /\ tokens.val[i].name = <<"=", ">">>
    /\ \E i \in 1..Len(tokens.val) :
        /\ tokens.val[i].kind = "Variable"
        /\ token_len(tokens.val[i]) >= 2
        /\ token_pos(tokens.val[i]) > 0

-----------------------------------------------------------------------------
(* The parser's error claims, under Spec and SpecTokens *)

\* Every contiguous slice of a token sequence.
Slices(toks) ==
    {SubSeq(toks, lo, hi) : lo \in 1..Len(toks), hi \in 1..Len(toks)} \ {<<>>}

\* The slice splits at a "!" that has tokens on both sides, and both sides
\* parse.
SplitsAtNegation(toks) ==
    /\ Len(toks) >= 3
    /\ LET top == find_top_level_operator(toks) IN
        /\ top.tag = "Some"
        /\ top.pos > 0 /\ top.pos < Len(toks) - 1
        /\ toks[top.pos + 1].name = <<"!">>
        /\ IsOk(parse(SubSeq(toks, 1, top.pos)))
        /\ IsOk(parse(SubSeq(toks, top.pos + 2, Len(toks))))

\* The span of the error is the left operand of the "!".
LeftOperandSpan(toks) ==
    LET result == parse(toks)
        top == find_top_level_operator(toks)
    IN  /\ IsErr(result)
        /\ result.message = "unexpected left hand side operand"
        /\ result.pos = token_pos(toks[1])
        /\ result.pos + result.len = TokenEnd(toks[top.pos])

\* C14 (as stated): for every slice of the tokens that splits at a "!" with a
\* left and a right operand that parse, wherever the slice lies in the text,
\* parse fails with "unexpected left hand side operand", pos the position of
\* the first left token and pos + len the end of the last left token.
C14_SpanCoversLeft ==
    pc = "tokenized" =>
        \A toks \in Slices(tokens.val) : SplitsAtNegation(toks) => LeftOperandSpan(toks)

\* The index (from 0) of the ")" that closes the group the first token opens.
ClosingIndex(toks) ==
    Least({i \in 1..(Len(toks) - 1) : DepthBefore(toks, i + 1) = 0})

\* At least two tokens, no operator at depth 0, a "(" first, and its ")"
\* before the last token.
ClosesEarly(toks) ==
    /\ Len(toks) >= 2
    /\ TopLevelOperators(toks) = {}
    /\ toks[1].kind = "OpenParanthesis"
    /\ \E i \in 1..(Len(toks) - 2) : DepthBefore(toks, i + 1) = 0

\* C15 (as stated): for every slice of the tokens whose outer group closes
\* before its last token, parse fails with "operator expected", pos and len
\* those of the token right after the closing ")".
C15_OperatorExpectedAfterClose ==
    pc = "tokenized" =>
        \A toks \in Slices(tokens.val) : ClosesEarly(toks) =>
            /\ IsErr(parse(toks))
            /\ parse(toks).message = "operator expected"
            /\ parse(toks).pos = token_pos(toks[ClosingIndex(toks) + 2])
            /\ parse(toks).len = token_len(toks[ClosingIndex(toks) + 2])

\* No operator at depth 0, a "(" first, the depth not below zero before the
\* last token and above zero at the end.
StaysOpen(toks) ==
    /\ TopLevelOperators(toks) = {}
    /\ toks[1].kind = "OpenParanthesis"
    /\ \A i \in 1..(Len(toks) - 1) : DepthBefore(toks, i) >= 0
    /\ DepthBefore(toks, Len(toks)) > 0

\* parse fails with ")" expected, len 0, just behind the last token.
CloseExpected(toks) ==
    /\ IsErr(parse(toks))
    /\ parse(toks).message = "\")\" expected"
    /\ parse(toks).len = 0
    /\ parse(toks).pos = token_pos(toks[Len(toks)]) + Len(token_name(toks[Len(toks)]))

\* C16 (as stated): every slice of the tokens that starts with "(", has no
\* operator at depth 0 and is still open at its end fails with ")" expected,
\* len 0, pos just behind its last token.
C16_CloseExpectedAnyLength ==
    pc = "tokenized" =>
        \A toks \in Slices(tokens.val) : StaysOpen(toks) => CloseExpected(toks)

\* C16 (amended): the same for the slices of two tokens at least; the slice
\* of the one token "(" fails with "value or variable expected", at that
\* token, with len 1.
C16_CloseExpected ==
    pc = "tokenized" =>
        \A toks \in Slices(tokens.val) : StaysOpen(toks) =>
            IF Len(toks) >= 2
            THEN CloseExpected(toks)
            ELSE parse(toks) = Err(token_pos(toks[1]), 1, "value or variable expected", "")

\* Tokens that stay open, of depth two, with an operator inside and a
\* variable of two letters at least last, not at the start of the text.
C16_Witness ==
    /\ pc = "tokenized"
    /\ StaysOpen(tokens.val)
    /\ token_pos(tokens.val[1]) > 0
    /\ \E i \in 1..Len(tokens.val) : DepthBefore(tokens.val, i) >= 2
    /\ \E i \in 1..Len(tokens.val) : tokens.val[i].kind = "Operator"
    /\ tokens.val[Len(tokens.val)].kind = "Variable"
    /\ Len(tokens.val[Len(tokens.val)].name) >= 2

\* The Operator tokens of a symbol that get_precedence does not know.
UnknownOperators(toks) ==
    {i \in 1..Len(toks) :
        /\ toks[i].kind = "Operator"
        /\ toks[i].name \notin {Chars("!"), Chars("&"), Chars("|"), Chars("^"),
                                Chars("="), Chars("=>")}}

\* C17 (as stated): parse of a token sequence with an Operator token of an
\* unknown symbol, alone or with other operators at depth 0, returns an error
\* with a message and does not abort.
C17_UnknownOperatorIsError ==
    (tree # None /\ UnknownOperators(tokens.val) # {}) =>
        /\ IsErr(tree)
        /\ tree.message # ""

\* C18: the print of a parsed tree parses again, to a tree of the same dump
\* string: the parentheses of to_string keep every split where it was.
C18_RoundTripKeepsDump ==
    pc = "printed" =>
        /\ IsOk(reparsed)
        /\ to_dump_string(reparsed.val) = to_dump_string(tree.val)
        /\ reparsed.val = tree.val

\* A tree was printed whose left operand is of the precedence of the root,
\* and a negation of a negation is below the root.
C18_Witness ==
    /\ pc = "printed"
    /\ tree.val.node = "Binary"
    /\ tree.val.left.node = "Binary"
    /\ precedence(tree.val.left) = precedence(tree.val)
    /\ \E n \in Nodes(tree.val) : n.node = "Unary" /\ n.arg.node = "Unary"

\* As many "(" as ")", and no prefix with more ")" than "(".
Balanced(toks) ==
    /\ DepthBefore(toks, Len(toks)) = 0
    /\ \A i \in 0..Len(toks) : DepthBefore(toks, i) >= 0

\* C19: when parse returns Ok the parentheses of the tokens are balanced, and
\* so are those of every slice of the tokens that parse accepts.
C19_OkIsBalanced ==
    /\ Parsed => Balanced(tokens.val)
    /\ pc = "tokenized" =>
        \A toks \in Slices(tokens.val) : IsOk(parse(toks)) => Balanced(toks)

\* A parsed text with parentheses of depth two, and a slice that ends in a
\* ")" too many tried before.
C19_Witness ==
    /\ Parsed
    /\ \E i \in 1..Len(tokens.val) : DepthBefore(tokens.val, i) >= 2
    /\ \E toks \in Slices(tokens.val) :
        /\ Len(toks) >= 3
        /\ toks[1].kind = "OpenParanthesis"
        /\ toks[Len(toks)].kind = "CloseParanthesis"
        /\ DepthBefore(toks, Len(toks)) < 0

\* The slices parse is called on below toks: in range and shorter than toks.
CallsShrink(toks) ==
    \A call \in ParsedSlices(toks, 0) \ {<<1, Len(toks)>>} :
        /\ 1 <= call[1]
        /\ call[1] <= call[2] + 1
        /\ call[2] <= Len(toks)
        /\ call[2] - call[1] + 1 < Len(toks)

\* C20: parse of the tokens of tokenize returns Ok or Err and does not abort,
\* and each slice parse is called on recursively lies inside the slice of the
\* calling parse and is shorter.
C20_ParseTotal ==
    /\ tree # None => tree.tag \in {"Ok", "Err"}
    /\ pc = "tokenized" =>
        /\ parse(tokens.val).tag \in {"Ok", "Err"}
        /\ \A call \in ParsedSlices(tokens.val, 0) :
            CallsShrink(SubSeq(tokens.val, call[1], call[2]))

\* parse has returned an error for tokens with parentheses, with "^" and
\* another operator at depth 0.
C20_Witness ==
    /\ tree # None
    /\ IsErr(tree)
    /\ HasParanthesis(tokens.val)
    /\ Cardinality(TopLevelOperators(tokens.val)) >= 2
    /\ \E i \in TopLevelOperators(tokens.val) : tokens.val[i + 1].name = <<"^">>

-----------------------------------------------------------------------------
(* The tokenizer on letters of more than one byte, under Spec *)

\* The maximal runs of letters of a text, as pairs <<first, last>> of
\* character indices (from 1).
LetterRuns(s) ==
    {run \in (1..Len(s)) \X (1..Len(s)) :
        /\ run[1] <= run[2]
        /\ \A i \in run[1]..run[2] : s[i] \in Letters
        /\ run[1] = 1 \/ s[run[1] - 1] \notin Letters
        /\ run[2] = Len(s) \/ s[run[2] + 1] \notin Letters}

\* C21 (as stated): tokenize returns Ok or Err for every text and does not
\* abort, letters of two bytes included; when it returns tokens, every maximal
\* run of letters is one Variable token, at the byte offset of the run, whose
\* name is the run.
C21_TokenizeTotal ==
    Tokenized =>
        /\ tokens.tag \in {"Ok", "Err"}
        /\ IsOk(tokens) =>
            \A run \in LetterRuns(src) :
                \E i \in 1..Len(tokens.val) :
                    tokens.val[i] = VariableToken(ByteLen(SubSeq(src, 1, run[1] - 1)),
                                                  SubSeq(src, run[1], run[2]))

====
